---- MODULE Spec2Model ----
(***************************************************************************)
(* Baseline-profile reconciliation of the omevv_baseline_profile module:   *)
(* main() with its three operation classes (plugins/modules/               *)
(* omevv_baseline_profile.py) over the REST helpers of OMEVVBaselineProfile *)
(* (plugins/module_utils/omevv_utils/omevv_firmware_utils.py).             *)
(*                                                                         *)
(* One behaviour is one or more invocations.  `entry` says how the code is *)
(* entered: "main" is the module run by Ansible; "perform_create",         *)
(* "perform_modify" and "perform_delete" are the submit-and-poll methods   *)
(* called directly on a constructed operation object.                      *)
(*                                                                         *)
(* Python values: every scalar (names, ids, messages) is a string, None is *)
(* the string None, a dict is a function over its keys, {} is <<>>, a list *)
(* is a sequence.                                                          *)
(***************************************************************************)
EXTENDS Integers, Sequences, FiniteSets, TLC

\* ------------------------------------------------------------------ bounds
MaxRuns == 2
MaxPolls == 3
MaxClusters == 2

\* --------------------------------------------------------------- constants
None == "None"
EmptyDict == <<>>

SUCCESS_CREATION_MSG == "Successfully created the baseline profile."
FAILED_CREATION_MSG == "Unable to create the baseline profile."
SUCCESS_MODIFY_MSG == "Successfully modified the baseline profile."
FAILED_MODIFY_MSG == "Unable to modify the baseline profile."
SUCCESS_DELETION_MSG == "Successfully deleted the baseline profile."
FAILED_DELETION_MSG == "Unable to delete the baseline profile."
CHANGES_FOUND_MSG == "Changes found to be applied."
CHANGES_NOT_FOUND_MSG == "No changes found to be applied."
TIMEOUT_NEGATIVE_OR_ZERO_MSG == "The value for the 'job_wait_timeout' parameter cannot be negative or zero."
INVALID_TIME_FORMAT_MSG == "Invalid value for time. Enter the value in positive integer."
INVALID_REPO_PROFILE_MSG == "Invalid repository profile: {repository_profile}. Please provide a valid profile."
INVALID_CLUSTER_NAMES_MSG == "Invalid cluster names: {cluster_names}. Please provide valid clusters."

\* URI templates, named by their last path element.
PROFILE_URI == "RepositoryProfiles"
BASELINE_PROFILE_URI == "BaselineProfiles"
CLUSTER_URI == "Clusters"
CLUSTER_IDS_URI == "getGroupsForClusters"
DRIFT_URI == "UpdateJobs"

\* str(err) of the two errors Python raises for a call that does not fit its
\* target: too few positional arguments, and a method the object does not have.
MISSING_ARGUMENT_MSG == "validate_repository_profile() missing 1 required positional argument: 'module'"
NO_ATTRIBUTE_MSG == "object has no attribute"

\* ------------------------------------------------------- the REST client
\* What one invoke_request can do: return a response whose success flag is
\* set or not, or raise HTTPError (HTTP status, and the errorCode and message
\* of its JSON body) or URLError.
\* errorCode is a string of digits, kept as the sequence of its characters: main
\* tests it with Python's substring operator.
HTTPErrors ==
    { [kind |-> "HTTPError", code |-> 500, errorCode |-> <<"5", "0", "0">>,
       message |-> "Internal Server Error", body |-> "body of the 500 answer"],
      [kind |-> "HTTPError", code |-> 400, errorCode |-> <<"1", "8", "0", "0", "1">>,
       message |-> "Baseline profile with name Test already exists.", body |-> "body of 18001"],
      [kind |-> "HTTPError", code |-> 400, errorCode |-> <<"1", "2", "0", "2", "7">>,
       message |-> "Bad request.", body |-> "body of 12027"],
      [kind |-> "HTTPError", code |-> 404, errorCode |-> <<"1", "5", "0", "0", "3">>,
       message |-> "Not found.", body |-> "body of 15003"] }

URLErrors == { [kind |-> "URLError", message |-> "urlopen error"] }

Responses == { [kind |-> "resp", success |-> TRUE], [kind |-> "resp", success |-> FALSE] }

CallResults == Responses \cup HTTPErrors \cup URLErrors

Raised(r) == r.kind # "resp"

Req(method, uri, id, r) == [method |-> method, uri |-> uri, id |-> id, result |-> r]

\* ------------------------------------------------------- the backend data
ClusterNames == {"c1", "c2", "cX"}

ClusterListing ==
    << [name |-> "c1", entityId |-> "e1"], [name |-> "c2", entityId |-> "e2"] >>

RepositoryListing ==
    << [profileName |-> "r1", id |-> "1000"], [profileName |-> "r2", id |-> "1001"] >>

GroupOf(entityId) == IF entityId = "e1" THEN "g1" ELSE "g2"

ClusterGroup(name, entityId) ==
    [clusterID |-> entityId, clusterName |-> name, omevv_groupID |-> GroupOf(entityId)]

Monday0800 ==
    [monday |-> TRUE, tuesday |-> FALSE, wednesday |-> FALSE, thursday |-> FALSE,
     friday |-> FALSE, saturday |-> FALSE, sunday |-> FALSE, time |-> "08:00"]

StoredProfile1 ==
    [id |-> "p1", name |-> "bp1", description |-> "d1", firmwareRepoId |-> "1000",
     firmwareRepoName |-> "r1", clusterGroups |-> << ClusterGroup("c1", "e1") >>,
     driftJobId |-> "j1", status |-> "SUCCESSFUL"]

StoredProfile2 ==
    [id |-> "p2", name |-> "bp2", description |-> None, firmwareRepoId |-> "1001",
     firmwareRepoName |-> "r2",
     clusterGroups |-> << ClusterGroup("c1", "e1"), ClusterGroup("c2", "e2") >>,
     driftJobId |-> "j2", status |-> "SUCCESSFUL"]

\* The baseline profiles the vCenter scope can hold when an invocation starts.
ProfileListings == { <<>>, << StoredProfile1 >>, << StoredProfile2, StoredProfile1 >> }

\* The schedule the update-job lookup reports for a profile's drift job.
LiveSchedule(driftJobId) == Monday0800

\* ------------------------------------------------------------ the inputs
\* cluster: the requested names, without repetition, at most MaxClusters.
ClusterInputs ==
    { c \in UNION { [1..n -> ClusterNames] : n \in 1..MaxClusters } :
        \A i, j \in DOMAIN c : i # j => c[i] # c[j] }

JobWaitInputs ==
    { [job_wait |-> TRUE, job_wait_timeout |-> 1200],
      [job_wait |-> TRUE, job_wait_timeout |-> 0],
      [job_wait |-> FALSE, job_wait_timeout |-> 0] }

\* days and time as given together; validate_time accepts the times of ValidTimes.
ScheduleInputs ==
    { [days |-> {"monday"}, time |-> "08:00"],
      [days |-> {"all", "friday"}, time |-> "08:00"],
      [days |-> {"monday"}, time |-> "8 am"] }
ValidTimes == { "08:00" }

PresentParams ==
    { [state |-> "present", name |-> n, cluster |-> c, repository_profile |-> r,
       description |-> d, days |-> sc.days, time |-> sc.time,
       job_wait |-> jw.job_wait, job_wait_timeout |-> jw.job_wait_timeout] :
        n \in {"bp1", "bp3"}, c \in ClusterInputs, r \in {"r1", "r2", "rX"},
        d \in {None, "d1"}, sc \in ScheduleInputs, jw \in JobWaitInputs }

AbsentParams ==
    { [state |-> "absent", name |-> n, cluster |-> <<>>, repository_profile |-> None,
       description |-> None, days |-> {}, time |-> None,
       job_wait |-> TRUE, job_wait_timeout |-> 1200] : n \in {"bp1", "bp2", "bp3"} }

\* ------------------------------------------------------------- the results
Absent == [absent |-> TRUE]
NoOpDiff == [before |-> EmptyDict, after |-> EmptyDict]

\* What exit_json was called with; a keyword that is not passed keeps the
\* value Ansible gives it (FALSE for the flags).
NoOutcome ==
    [exited |-> FALSE, msg |-> None, changed |-> FALSE, failed |-> FALSE, skipped |-> FALSE,
     unreachable |-> FALSE, diff |-> Absent, baseline_profile_info |-> Absent,
     error_info |-> Absent]

ExitJson(msg) == [NoOutcome EXCEPT !.exited = TRUE, !.msg = msg]

NoExc == [kind |-> None, message |-> None]

NeverSubstring(sub, s) == FALSE

IsSubstring(sub, s) ==
    \E i \in 0..(Len(s) - Len(sub)) : SubSeq(s, i + 1, i + Len(sub)) = sub

\* ------------------------------------------------------------------ state
VARIABLES
    entry,             \* how the code is entered (see the head of the module)
    params,            \* module.params
    check_mode,        \* module.check_mode
    diff_mode,         \* module._diff
    stored,            \* the baseline profiles of the vCenter scope (backend)
    pc,                \* the position of the invocation
    op,                \* the operation class main constructed
    existing_profile,  \* the profile the name lookup returned, or {}
    payload,           \* the request body the operation assembled
    diff,              \* the diff the operation holds
    cluster_ids,       \* diff_mode_check's cluster_ids
    group_ids,         \* diff_mode_check's group_ids
    executed,          \* the operations whose execute() was entered, in order
    requests,          \* the invoke_request calls of this invocation, with results
    seen,              \* the statuses the poll loop has read
    exc,               \* the exception in flight or escaped
    outcome,           \* the exit_json call of this invocation
    run,               \* the number of this invocation
    previous,          \* how the invocation before this one ended, None for the first
    returned           \* what a helper called directly returned

vars == << entry, params, check_mode, diff_mode, stored, pc, op, existing_profile,
           payload, diff, cluster_ids, group_ids,
           executed, requests, seen, exc, outcome, run, previous, returned >>

locals == << payload, diff, cluster_ids, group_ids >>

inputs == << entry, params, check_mode, diff_mode, stored >>

\* --------------------------------------------------- OMEVVBaselineProfile
Min(S) == CHOOSE i \in S : \A j \in S : i <= j

\* The request of get_baseline_profiles, and what it returns.
get_baseline_profiles_post(r) == Req("POST", BASELINE_PROFILE_URI, None, r)

get_baseline_profiles_request(r) == Req("GET", BASELINE_PROFILE_URI, None, r)

get_baseline_profiles(r, listing) == IF r.success THEN listing ELSE <<>>

get_baseline_profile_first(profiles, profile_name) ==
    IF profiles = <<>> THEN EmptyDict ELSE profiles[1]

get_baseline_profile_by_name(profiles, profile_name) ==
    LET hits == { i \in DOMAIN profiles : profiles[i].name = profile_name }
    IN  IF hits = {} THEN EmptyDict ELSE profiles[Min(hits)]

\* get_firmware_repository_profile with a profile name, then the id of the
\* dict search_profile_name found ({} when none has the name).
search_profile_name(data, profile_name) ==
    LET hits == { i \in DOMAIN data : data[i].profileName = profile_name }
    IN  IF hits = {} THEN EmptyDict ELSE data[Min(hits)]

get_repo_id_by_name(r, repository_profile) ==
    LET profile_info == IF r.success THEN search_profile_name(RepositoryListing, repository_profile)
                        ELSE <<>>
    IN  IF profile_info # <<>> THEN profile_info.id ELSE None

\* `if days and time`: an empty list and None are false, and so are None and
\* the empty string.  days is the set of the list's tokens (set(days)).
Truthy(time) == time # None /\ time # ""

AllDays(time) ==
    [monday |-> TRUE, tuesday |-> TRUE, wednesday |-> TRUE, thursday |-> TRUE,
     friday |-> TRUE, saturday |-> TRUE, sunday |-> TRUE, time |-> time]

create_job_schedule_days_only(days, time) ==
    IF days # {} THEN AllDays(time) ELSE Absent

create_job_schedule_all_alone(days, time) ==
    IF days # {} /\ Truthy(time)
    THEN IF days = {"all"} THEN AllDays(time)
         ELSE [monday |-> "monday" \in days, tuesday |-> "tuesday" \in days,
               wednesday |-> "wednesday" \in days, thursday |-> "thursday" \in days,
               friday |-> "friday" \in days, saturday |-> "saturday" \in days,
               sunday |-> "sunday" \in days, time |-> time]
    ELSE Absent

create_job_schedule(days, time) ==
    IF days # {} /\ Truthy(time)
    THEN IF "all" \in days
         THEN [monday |-> TRUE, tuesday |-> TRUE, wednesday |-> TRUE, thursday |-> TRUE,
               friday |-> TRUE, saturday |-> TRUE, sunday |-> TRUE, time |-> time]
         ELSE [monday |-> "monday" \in days, tuesday |-> "tuesday" \in days,
               wednesday |-> "wednesday" \in days, thursday |-> "thursday" \in days,
               friday |-> "friday" \in days, saturday |-> "saturday" \in days,
               sunday |-> "sunday" \in days, time |-> time]
    ELSE Absent

\* cluster_ids of get_cluster_id and of get_group_ids_for_clusters: the entity
\* ids of the listed clusters whose name is requested, in listing order.
RECURSIVE cluster_ids_in_input_order(_, _)
cluster_ids_in_input_order(clusters, cluster_names) ==
    IF cluster_names = <<>> THEN <<>>
    ELSE LET hits == { i \in DOMAIN clusters : clusters[i].name = Head(cluster_names) }
             rest == cluster_ids_in_input_order(clusters, Tail(cluster_names))
         IN  IF hits = {} THEN rest
             ELSE << clusters[CHOOSE i \in hits : TRUE].entityId >> \o rest

RECURSIVE cluster_ids_of(_, _)
cluster_ids_of(clusters, cluster_names) ==
    IF clusters = <<>> THEN <<>>
    ELSE LET c == Head(clusters)
             rest == cluster_ids_of(Tail(clusters), cluster_names)
         IN  IF \E i \in DOMAIN cluster_names : cluster_names[i] = c.name
             THEN << c.entityId >> \o rest ELSE rest

\* The group ids getGroupsForClusters answers with, one per cluster id.
group_ids_of(ids) == [i \in DOMAIN ids |-> GroupOf(ids[i])]

Range(seq) == { seq[i] : i \in DOMAIN seq }

\* ------------------------------------------------------ Python's call rules
\* The methods an operation object has: its class's and BaselineProfile's.
Methods(cls) ==
    {"validate_common_params", "execute", "diff_mode_check"} \cup
    ( CASE cls = "CreateBaselineProfile" ->
             {"get_cluster_groups", "perform_create_baseline_profile"}
        [] cls = "ModifyBaselineProfile" -> {"perform_modify_baseline_profile"}
        [] cls = "DeleteBaselineProfile" -> {"perform_delete_baseline_profile"} )

\* The method execute() calls on self to submit, and the position where that
\* method starts when the object has it.
SubmitCall(cls) ==
    CASE cls = "CreateBaselineProfile" -> "create_baseline_profile"
      [] cls = "ModifyBaselineProfile" -> "modify_baseline_profile"
      [] cls = "DeleteBaselineProfile" -> "delete_baseline_profile"

SubmitStart(cls) ==
    CASE cls = "CreateBaselineProfile" -> "perform_create"
      [] cls = "ModifyBaselineProfile" -> "perform_modify"
      [] cls = "DeleteBaselineProfile" -> "perform_delete"

AttributeError == [kind |-> "AttributeError", message |-> NO_ATTRIBUTE_MSG]
TypeError == [kind |-> "TypeError", message |-> MISSING_ARGUMENT_MSG]

\* validate_repository_profile: its parameters after self, and the arguments
\* validate_common_params passes.
ValidateRepositoryProfileParams == << "repository_profile", "module" >>
ValidateRepositoryProfileArgs == << "repository_profile" >>

\* An exception leaves the method; main catches it, a direct caller gets it.
RaiseAndGoOn(e) ==
    /\ pc' = pc
    /\ exc' = e

Raise(e) ==
    /\ pc' = IF entry = "main" THEN "except" ELSE "raised"
    /\ exc' = e

\* ------------------------------------------------- validate_common_params
validate_job_wait(p) == p.job_wait /\ p.job_wait_timeout <= 0

validate_time(time) == time \in ValidTimes

validate_common_params(p) ==
    IF validate_job_wait(p)
    THEN [kind |-> "exit", out |-> [ExitJson(TIMEOUT_NEGATIVE_OR_ZERO_MSG) EXCEPT !.failed = TRUE]]
    ELSE IF ~validate_time(p.time)
    THEN [kind |-> "exit", out |-> [ExitJson(INVALID_TIME_FORMAT_MSG) EXCEPT !.failed = TRUE]]
    ELSE IF Len(ValidateRepositoryProfileArgs) # Len(ValidateRepositoryProfileParams)
    THEN [kind |-> "raise", exc |-> TypeError]
    ELSE [kind |-> "call"]

\* ------------------------------------------------------------------- main
\* The operation class main constructs for state=present.
main_select_swapped(found) ==
    IF found # EmptyDict THEN "CreateBaselineProfile" ELSE "ModifyBaselineProfile"

main_select(found) ==
    IF found # EmptyDict THEN "ModifyBaselineProfile" ELSE "CreateBaselineProfile"

MainPresent ==
    /\ pc = "main" /\ params.state = "present"
    /\ \E r \in CallResults :
         /\ requests' = Append(requests, get_baseline_profiles_request(r))
         /\ IF Raised(r)
            THEN Raise(r) /\ UNCHANGED << op, existing_profile >>
            ELSE LET found == get_baseline_profile_by_name(
                                  get_baseline_profiles(r, stored), params.name)
                 IN  /\ existing_profile' = found
                     /\ op' = main_select(found)
                     /\ pc' = "execute"
                     /\ exc' = exc
    /\ UNCHANGED << inputs, locals, executed, seen, outcome, run, previous, returned >>

MainAbsent ==
    /\ pc = "main" /\ params.state = "absent"
    /\ op' = "DeleteBaselineProfile"
    /\ pc' = "execute"
    /\ UNCHANGED << inputs, locals, existing_profile, executed, requests, seen, exc,
                    outcome, run, previous, returned >>

\* The start of CreateBaselineProfile.execute and ModifyBaselineProfile.execute:
\* validate_common_params.
ExecuteValidation(cls) ==
    /\ pc = "execute" /\ op = cls
    /\ executed' = Append(executed, cls)
    /\ LET v == validate_common_params(params)
       IN  CASE v.kind = "exit" -> pc' = "done" /\ outcome' = v.out /\ exc' = exc
             [] v.kind = "raise" -> Raise(v.exc) /\ outcome' = outcome
             [] OTHER -> pc' = "validate_repository_profile" /\ UNCHANGED << outcome, exc >>
    /\ UNCHANGED << inputs, locals, op, existing_profile, requests, seen, run, previous, returned >>

CreateExecute == ExecuteValidation("CreateBaselineProfile")

ModifyExecute == ExecuteValidation("ModifyBaselineProfile")

\* DeleteBaselineProfile.diff_mode_check
delete_diff_mode_check_swapped(profile, with_diff) ==
    LET diff_dict == [name |-> profile.name, description |-> profile.description,
                      firmwareRepoId |-> profile.firmwareRepoId,
                      firmwareRepoName |-> profile.firmwareRepoName,
                      clusterGroups |-> profile.clusterGroups]
    IN  IF with_diff THEN [before |-> EmptyDict, after |-> diff_dict] ELSE EmptyDict

delete_diff_mode_check(profile, with_diff) ==
    LET diff_dict == [name |-> profile.name, description |-> profile.description,
                      firmwareRepoId |-> profile.firmwareRepoId,
                      firmwareRepoName |-> profile.firmwareRepoName,
                      clusterGroups |-> profile.clusterGroups]
    IN  IF with_diff THEN [before |-> diff_dict, after |-> EmptyDict] ELSE EmptyDict

\* DeleteBaselineProfile.execute; existing_profile holds its profile_exists.
DeleteExecute ==
    /\ pc = "execute" /\ op = "DeleteBaselineProfile"
    /\ executed' = Append(executed, op)
    /\ \E r \in CallResults :
         /\ requests' = Append(requests, get_baseline_profiles_request(r))
         /\ IF Raised(r)
            THEN Raise(r) /\ UNCHANGED << existing_profile, outcome >>
            ELSE LET profile_exists == get_baseline_profile_by_name(
                                           get_baseline_profiles(r, stored), params.name)
                     found == profile_exists # EmptyDict
                 IN  /\ existing_profile' = profile_exists
                     /\ CASE found /\ check_mode /\ diff_mode ->
                               /\ outcome' = [ExitJson(CHANGES_FOUND_MSG) EXCEPT
                                                !.diff = delete_diff_mode_check(profile_exists, diff_mode),
                                                !.changed = TRUE]
                               /\ pc' = "done" /\ exc' = exc
                          [] ~found /\ check_mode ->
                               /\ outcome' = ExitJson(CHANGES_NOT_FOUND_MSG)
                               /\ pc' = "done" /\ exc' = exc
                          [] ~found /\ ~check_mode /\ diff_mode ->
                               /\ outcome' = [ExitJson(CHANGES_NOT_FOUND_MSG) EXCEPT !.diff = NoOpDiff]
                               /\ pc' = "done" /\ exc' = exc
                          [] ~found /\ ~check_mode /\ ~diff_mode ->
                               /\ outcome' = ExitJson(CHANGES_NOT_FOUND_MSG)
                               /\ pc' = "done" /\ exc' = exc
                          [] found /\ ~check_mode ->
                               /\ IF SubmitCall(op) \in Methods(op)
                                  THEN pc' = SubmitStart(op) /\ exc' = exc
                                  ELSE Raise(AttributeError)
                               /\ outcome' = outcome
                          [] found /\ check_mode /\ ~diff_mode ->
                               /\ outcome' = [ExitJson(CHANGES_FOUND_MSG) EXCEPT !.changed = TRUE]
                               /\ pc' = "done" /\ exc' = exc
    /\ UNCHANGED << inputs, locals, op, seen, run, previous, returned >>

\* The except clauses of main.
CaughtTransportOnly == {"HTTPError", "URLError"}

Caught == {"HTTPError", "URLError", "IOError", "ValueError", "TypeError", "ConnectionError",
           "AttributeError", "IndexError", "KeyError", "OSError"}

main_except_all_failed(e, check) == [ExitJson(e.message) EXCEPT !.failed = TRUE]

main_except_failed_and_skipped(e, check) ==
    [ExitJson(e.message) EXCEPT !.failed = TRUE, !.skipped = (e.kind = "HTTPError")]

main_except(e, check) ==
    CASE e.kind = "HTTPError" ->
           IF e.code = 500
           THEN [ExitJson(e.body) EXCEPT !.failed = TRUE]
           ELSE IF IsSubstring(<< "1", "8", "0", "0", "1" >>, e.errorCode) /\ check
           THEN ExitJson(CHANGES_NOT_FOUND_MSG)
           ELSE IF IsSubstring(<< "5", "0", "0" >>, e.errorCode)
           THEN [ExitJson(e.message) EXCEPT !.skipped = TRUE]
           ELSE [ExitJson(e.message) EXCEPT
                   !.error_info = [errorCode |-> e.errorCode, message |-> e.message],
                   !.failed = TRUE]
      [] e.kind = "URLError" -> [ExitJson(e.message) EXCEPT !.unreachable = TRUE]
      [] OTHER -> [ExitJson(e.message) EXCEPT !.failed = TRUE]

MainExcept ==
    /\ pc = "except"
    /\ IF exc.kind \in Caught
       THEN pc' = "done" /\ outcome' = main_except(exc, check_mode)
       ELSE pc' = "raised" /\ outcome' = outcome
    /\ UNCHANGED << inputs, locals, op, existing_profile, executed, requests, seen, exc, run,
                    previous, returned >>

\* The module is run again with the same parameters; nothing else touched the
\* backend in between.
Rerun ==
    /\ entry = "main" /\ pc = "done" /\ run < MaxRuns
    /\ previous' = IF exc.kind \in {"HTTPError", "URLError"} THEN "transport error" ELSE "exit"
    /\ run' = run + 1
    /\ pc' = "main"
    /\ op' = None
    /\ existing_profile' = EmptyDict
    /\ executed' = <<>>
    /\ requests' = <<>>
    /\ seen' = <<>>
    /\ exc' = NoExc
    /\ outcome' = NoOutcome
    /\ UNCHANGED << inputs, locals, returned >>

\* ------------------------------------------------------------ the payloads
\* get_add_remove_group_ids, given the group ids resolved from the cluster names.
get_add_remove_group_ids_swapped(profile, resolved) ==
    LET current_group_ids == { profile.clusterGroups[i].omevv_groupID :
                                 i \in DOMAIN profile.clusterGroups }
        new_group_ids == Range(resolved)
    IN  [add_group_ids |-> current_group_ids \ new_group_ids,
         remove_group_ids |-> new_group_ids \ current_group_ids]

get_add_remove_group_ids(profile, resolved) ==
    LET current_group_ids == { profile.clusterGroups[i].omevv_groupID :
                                 i \in DOMAIN profile.clusterGroups }
        new_group_ids == Range(resolved)
    IN  [add_group_ids |-> new_group_ids \ current_group_ids,
         remove_group_ids |-> current_group_ids \ new_group_ids]

\* The payload CreateBaselineProfile.execute assembles.
create_payload(p, firmware_repo_id, groups, job_schedule) ==
    ( IF job_schedule # Absent THEN "jobSchedule" :> job_schedule ELSE <<>> ) @@
    ( IF p.description # None THEN "description" :> p.description ELSE <<>> ) @@
    [name |-> p.name, firmwareRepoId |-> firmware_repo_id, groupIds |-> groups]

\* The payload ModifyBaselineProfile.execute assembles.
modify_payload(p, add_remove, job_schedule, firmware_repo_id) ==
    [addgroupIds |-> add_remove.add_group_ids,
     removeGroupIds |-> add_remove.remove_group_ids,
     jobSchedule |-> job_schedule,
     description |-> p.description,
     configurationRepoId |-> 0,
     firmwareRepoId |-> firmware_repo_id,
     driverRepoId |-> 0,
     modifiedBy |-> "Administrator@VSPHERE.LOCAL"]

\* -------------------------------------------------------------- the diffs
\* zip(cluster_names, cluster_ids, group_ids) as clusterGroups entries.
zip_cluster_groups(names, cids, gids) ==
    LET n == Min({Len(names), Len(cids), Len(gids)})
    IN  [i \in 1..n |-> [clusterID |-> cids[i], clusterName |-> names[i],
                         omevv_groupID |-> gids[i]]]

\* {k: v for k, v in d.items() if v is not None}
IsNoneAt(k, v) ==
    CASE k = "jobSchedule" -> v = Absent
      [] k = "clusterGroups" -> FALSE
      [] OTHER -> v = None

Sparse(d) == [k \in { k \in DOMAIN d : ~IsNoneAt(k, d[k]) } |-> d[k]]

create_diff_mode_check_dense(p, pl, cids, gids) ==
    [before |-> EmptyDict,
     after |-> [name |-> pl.name,
                firmwareRepoId |-> pl.firmwareRepoId,
                firmwareRepoName |-> p.repository_profile,
                clusterGroups |-> zip_cluster_groups(p.cluster, cids, gids),
                description |-> p.description,
                jobSchedule |-> IF "jobSchedule" \in DOMAIN pl THEN pl.jobSchedule ELSE Absent]]

\* CreateBaselineProfile.diff_mode_check, given what its two lookups returned.
create_diff_mode_check(p, pl, cids, gids) ==
    LET filtered_payload ==
            [name |-> pl.name,
             firmwareRepoId |-> pl.firmwareRepoId,
             firmwareRepoName |-> p.repository_profile,
             clusterGroups |-> zip_cluster_groups(p.cluster, cids, gids),
             description |-> p.description,
             jobSchedule |-> IF "jobSchedule" \in DOMAIN pl THEN pl.jobSchedule ELSE Absent]
    IN  [before |-> EmptyDict, after |-> Sparse(filtered_payload)]

\* ModifyBaselineProfile.diff_mode_check, given what its lookups returned.
modify_diff_mode_check(p, pl, profile, cids, gids, old_job_schedule) ==
    LET modified_payload ==
            [name |-> p.name,
             firmwareRepoId |-> pl.firmwareRepoId,
             firmwareRepoName |-> p.repository_profile,
             clusterGroups |-> zip_cluster_groups(p.cluster, cids, gids),
             description |-> p.description,
             jobSchedule |-> pl.jobSchedule]
        filtered_existing_profile ==
            ("jobSchedule" :> old_job_schedule) @@
            [k \in DOMAIN profile \cap DOMAIN modified_payload |-> profile[k]]
    IN  IF filtered_existing_profile = modified_payload
        THEN NoOpDiff
        ELSE [before |-> Sparse(filtered_existing_profile),
              after |-> Sparse(modified_payload)]

\* What the resolution steps of execute() give when every lookup succeeds.
ResolvedClusterIds(p) == cluster_ids_of(ClusterListing, p.cluster)
ResolvedGroupIds(p) == group_ids_of(ResolvedClusterIds(p))
ResolvedRepoId(p) == get_repo_id_by_name([kind |-> "resp", success |-> TRUE], p.repository_profile)

ExecuteCreatePayload(p) ==
    create_payload(p, ResolvedRepoId(p), ResolvedGroupIds(p), create_job_schedule(p.days, p.time))

ExecuteModifyPayload(p, profile) ==
    modify_payload(p, get_add_remove_group_ids(profile, ResolvedGroupIds(p)),
                   create_job_schedule(p.days, p.time), ResolvedRepoId(p))

ExecuteModifyDiff(p, profile) ==
    modify_diff_mode_check(p, ExecuteModifyPayload(p, profile), profile,
                           ResolvedClusterIds(p), ResolvedGroupIds(p),
                           LiveSchedule(profile.driftJobId))

\* ------------------------------------------------------- submit and poll
Statuses == {"PENDING", "RUNNING", "SUCCESSFUL", "FAILED"}

\* The statuses that end the poll loop.
TerminalOrRunning == {"SUCCESSFUL", "FAILED", "RUNNING"}

Terminal == {"SUCCESSFUL", "FAILED"}

\* What the GET of one baseline profile can do.
PollResults ==
    { [kind |-> "resp", success |-> TRUE, status |-> st] : st \in Statuses }
        \cup HTTPErrors \cup URLErrors

\* The id create_baseline_profile's response carries.
CreatedId == "p9"

PollStart(cls) == IF cls = "CreateBaselineProfile" THEN "create_poll" ELSE "modify_poll"
PollStay(cls) == PollStart(cls)
PollEnd(cls) == IF cls = "CreateBaselineProfile" THEN "create_diff" ELSE "modify_report"
PolledId(cls) == IF cls = "CreateBaselineProfile" THEN CreatedId ELSE existing_profile.id

\* OMEVVBaselineProfile.create_baseline_profile: the message it records when
\* name, firmware_repo_id or group_ids is false in Python's sense, the requests
\* it issues and the response it returns.
REQUIRED_PARAMETERS_MSG == "Required parameters: name, firmware_repo_id, or group_ids are missing."

MissingRequired(pl) ==
    \/ pl.name = None \/ pl.name = ""
    \/ pl.firmwareRepoId = None \/ pl.firmwareRepoId = ""
    \/ pl.groupIds = <<>>

create_baseline_profile_aborting(pl, r) ==
    IF MissingRequired(pl)
    THEN [err_msg |-> REQUIRED_PARAMETERS_MSG, requests |-> <<>>,
          resp |-> [kind |-> "resp", success |-> FALSE]]
    ELSE [err_msg |-> None,
          requests |-> << Req("POST", BASELINE_PROFILE_URI, None, r) @@ [payload |-> pl] >>,
          resp |-> r]

create_baseline_profile(pl, r) ==
    [err_msg |-> IF MissingRequired(pl) THEN REQUIRED_PARAMETERS_MSG ELSE None,
     requests |-> << Req("POST", BASELINE_PROFILE_URI, None, r) @@ [payload |-> pl] >>,
     resp |-> r]

\* perform_create_baseline_profile up to the test of response.success; err_msg
\* is bound and not read.
PerformCreate ==
    /\ pc = "perform_create"
    /\ \E result \in CallResults :
         LET call == create_baseline_profile(payload, result)
             r == call.resp
         IN
         /\ requests' = requests \o call.requests
         /\ IF Raised(r) THEN Raise(r) /\ outcome' = outcome
            ELSE IF r.success
            THEN pc' = PollStart(op) /\ UNCHANGED << exc, outcome >>
            ELSE /\ pc' = "done" /\ exc' = exc
                 /\ outcome' = [ExitJson(FAILED_CREATION_MSG) EXCEPT !.failed = TRUE]
    /\ UNCHANGED << inputs, locals, op, existing_profile, executed, seen, run, previous, returned >>

\* OMEVVBaselineProfile.modify_baseline_profile: the PATCH goes out with the
\* payload whatever err_msg holds.
modify_baseline_profile(profile_id, pl, r) ==
    [requests |-> << Req("PATCH", BASELINE_PROFILE_URI, profile_id, r) @@ [payload |-> pl] >>,
     resp |-> r]

\* perform_modify_baseline_profile up to the test of response.success.
PerformModify ==
    /\ pc = "perform_modify"
    /\ \E r \in CallResults :
         /\ requests' = requests \o modify_baseline_profile(existing_profile.id, payload, r).requests
         /\ IF Raised(r) THEN Raise(r) /\ outcome' = outcome
            ELSE IF r.success
            THEN pc' = PollStart(op) /\ UNCHANGED << exc, outcome >>
            ELSE /\ pc' = "done" /\ exc' = exc
                 /\ outcome' = [ExitJson(FAILED_MODIFY_MSG) EXCEPT !.failed = TRUE]
    /\ UNCHANGED << inputs, locals, op, existing_profile, executed, seen, run, previous, returned >>

\* One get_baseline_profile_by_id of the poll loop and the loop's test (the
\* sleep of SleepSeconds lies between two of them).
SleepSeconds == 3

Poll ==
    /\ pc \in {"create_poll", "modify_poll"}
    /\ Len(seen) < MaxPolls
    /\ \E r \in PollResults :
         /\ requests' = Append(requests, Req("GET", BASELINE_PROFILE_URI, PolledId(op), r))
         /\ IF Raised(r) THEN Raise(r) /\ seen' = seen
            ELSE /\ seen' = Append(seen, r.status)
                 /\ pc' = IF r.status \in Terminal THEN PollEnd(op) ELSE pc
                 /\ exc' = exc
    /\ UNCHANGED << inputs, locals, op, existing_profile, executed, outcome, run, previous, returned >>

LastSeen == seen[Len(seen)]

\* diff_mode_check of perform_create_baseline_profile: get_cluster_id.
CreateDiffClusterIds ==
    /\ pc = "create_diff"
    /\ \E r \in CallResults :
         /\ requests' = Append(requests, Req("GET", CLUSTER_URI, None, r))
         /\ IF Raised(r) THEN Raise(r) /\ cluster_ids' = cluster_ids
            ELSE /\ cluster_ids' = IF r.success THEN cluster_ids_of(ClusterListing, params.cluster)
                                   ELSE <<>>
                 /\ pc' = "create_diff_groups"
                 /\ exc' = exc
    /\ UNCHANGED << inputs, payload, diff, group_ids, op, existing_profile, executed, seen,
                    outcome, run, previous, returned >>

\* get_group_ids_for_clusters: the cluster listing and, for a non-empty id
\* list, the batched lookup.  [requests, raised, value].
get_group_ids_for_clusters_unguarded(r, r2, cluster_names) ==
    LET get == Req("GET", CLUSTER_URI, None, r)
        post == Req("POST", CLUSTER_IDS_URI, None, r2)
    IN  IF Raised(r) THEN [requests |-> << get >>, raised |-> r, value |-> <<>>]
        ELSE LET ids == IF r.success THEN cluster_ids_of(ClusterListing, cluster_names)
                        ELSE <<>>
             IN  IF Raised(r2) THEN [requests |-> << get, post >>, raised |-> r2, value |-> <<>>]
                 ELSE [requests |-> << get, post >>, raised |-> NoExc,
                       value |-> IF r2.success THEN group_ids_of(ids) ELSE <<>>]

get_group_ids_for_clusters(r, r2, cluster_names) ==
    LET get == Req("GET", CLUSTER_URI, None, r)
        post == Req("POST", CLUSTER_IDS_URI, None, r2)
    IN  IF Raised(r) THEN [requests |-> << get >>, raised |-> r, value |-> <<>>]
        ELSE LET ids == IF r.success THEN cluster_ids_of(ClusterListing, cluster_names)
                        ELSE <<>>
             IN  IF ids = <<>> THEN [requests |-> << get >>, raised |-> NoExc, value |-> <<>>]
                 ELSE IF Raised(r2) THEN [requests |-> << get, post >>, raised |-> r2, value |-> <<>>]
                 ELSE [requests |-> << get, post >>, raised |-> NoExc,
                       value |-> IF r2.success THEN group_ids_of(ids) ELSE <<>>]

\* diff_mode_check of perform_create_baseline_profile: the group ids, the diff.
CreateDiffGroupIds ==
    /\ pc = "create_diff_groups"
    /\ \E r \in CallResults, r2 \in CallResults :
         LET g == get_group_ids_for_clusters(r, r2, params.cluster)
         IN  /\ requests' = requests \o g.requests
             /\ IF g.raised # NoExc THEN Raise(g.raised) /\ UNCHANGED << group_ids, diff >>
                ELSE /\ group_ids' = g.value
                     /\ diff' = create_diff_mode_check(params, payload, cluster_ids, g.value)
                     /\ pc' = "create_report"
                     /\ exc' = exc
    /\ UNCHANGED << inputs, payload, cluster_ids, op, existing_profile, executed, seen,
                    outcome, run, previous, returned >>

ProfileInfo(id, status) == [id |-> id, status |-> status]

\* The exits of perform_create_baseline_profile after the poll loop.
CreateReport ==
    /\ pc = "create_report"
    /\ outcome' =
         IF diff_mode /\ LastSeen = "SUCCESSFUL"
         THEN [ExitJson(SUCCESS_CREATION_MSG) EXCEPT
                 !.baseline_profile_info = ProfileInfo(CreatedId, LastSeen),
                 !.diff = diff, !.changed = TRUE]
         ELSE IF LastSeen = "SUCCESSFUL"
         THEN [ExitJson(SUCCESS_CREATION_MSG) EXCEPT
                 !.baseline_profile_info = ProfileInfo(CreatedId, LastSeen), !.changed = TRUE]
         ELSE [ExitJson(FAILED_CREATION_MSG) EXCEPT
                 !.baseline_profile_info = ProfileInfo(CreatedId, LastSeen), !.failed = TRUE]
    /\ pc' = "done"
    /\ UNCHANGED << inputs, locals, op, existing_profile, executed, requests, seen, exc, run,
                    previous, returned >>

ModifyReportAlwaysChanged ==
    /\ pc = "modify_report"
    /\ outcome' = [ExitJson(SUCCESS_MODIFY_MSG) EXCEPT
                     !.baseline_profile_info = ProfileInfo(existing_profile.id, LastSeen),
                     !.changed = TRUE]
    /\ pc' = "done"
    /\ UNCHANGED << inputs, locals, op, existing_profile, executed, requests, seen, exc, run,
                    previous, returned >>

\* The exits of perform_modify_baseline_profile after the poll loop.
ModifyReport ==
    /\ pc = "modify_report"
    /\ outcome' =
         IF diff_mode /\ LastSeen = "SUCCESSFUL"
         THEN [ExitJson(SUCCESS_MODIFY_MSG) EXCEPT
                 !.baseline_profile_info = ProfileInfo(existing_profile.id, LastSeen),
                 !.diff = diff, !.changed = TRUE]
         ELSE IF LastSeen = "SUCCESSFUL"
         THEN [ExitJson(SUCCESS_MODIFY_MSG) EXCEPT
                 !.baseline_profile_info = ProfileInfo(existing_profile.id, LastSeen),
                 !.changed = TRUE]
         ELSE [ExitJson(FAILED_MODIFY_MSG) EXCEPT
                 !.baseline_profile_info = ProfileInfo(existing_profile.id, LastSeen),
                 !.failed = TRUE]
    /\ pc' = "done"
    /\ UNCHANGED << inputs, locals, op, existing_profile, executed, requests, seen, exc, run,
                    previous, returned >>

\* perform_delete_baseline_profile
PerformDelete ==
    /\ pc = "perform_delete"
    /\ diff' = delete_diff_mode_check(existing_profile, diff_mode)
    /\ \E r \in CallResults :
         /\ requests' = Append(requests, Req("DELETE", BASELINE_PROFILE_URI, existing_profile.id, r))
         /\ IF Raised(r) THEN Raise(r) /\ outcome' = outcome
            ELSE /\ pc' = "done" /\ exc' = exc
                 /\ outcome' =
                      IF r.success
                      THEN IF diff_mode
                           THEN [ExitJson(SUCCESS_DELETION_MSG) EXCEPT
                                   !.baseline_profile_info = EmptyDict, !.diff = diff',
                                   !.changed = TRUE]
                           ELSE [ExitJson(SUCCESS_DELETION_MSG) EXCEPT
                                   !.baseline_profile_info = EmptyDict, !.changed = TRUE]
                      ELSE [ExitJson(FAILED_DELETION_MSG) EXCEPT !.failed = TRUE]
    /\ UNCHANGED << inputs, payload, cluster_ids, group_ids, op, existing_profile, executed,
                    seen, run, previous, returned >>

\* ------------------------------------------- the helpers, called directly
\* OMEVVBaselineProfile's helpers called on their own; params holds the
\* arguments of the call and returned what the call gave back.
DayTokens == {"all", "monday", "friday", "Monday"}
TimeArgs == {None, "", "08:00", "8 am"}

\* days: a list of tokens ([] included) or None, which set() is never applied to.
ScheduleArgs ==
    { [days_is_none |-> FALSE, days |-> d, time |-> t] : d \in SUBSET DayTokens, t \in TimeArgs }
        \cup { [days_is_none |-> TRUE, days |-> {}, time |-> t] : t \in TimeArgs }

ClusterArgs == { [cluster |-> c] : c \in ClusterInputs }

\* A profile one of whose clusters is no longer listed.
StaleProfile ==
    [id |-> "p3", name |-> "bp4", description |-> None, firmwareRepoId |-> "1000",
     firmwareRepoName |-> "r1",
     clusterGroups |-> << ClusterGroup("c1", "e1"),
                          [clusterID |-> "e3", clusterName |-> "c3", omevv_groupID |-> "g3"] >>,
     driftJobId |-> "j3", status |-> "SUCCESSFUL"]

AttachedProfiles == { StoredProfile1, StoredProfile2, StaleProfile }

CreateJobSchedule ==
    /\ pc = "create_job_schedule"
    /\ returned' = create_job_schedule(params.days, params.time)
    /\ pc' = "returned"
    /\ UNCHANGED << inputs, locals, op, existing_profile, executed, requests, seen, exc,
                    outcome, run, previous >>

get_cluster_id(r, cluster_names) ==
    IF r.success THEN cluster_ids_of(ClusterListing, cluster_names) ELSE <<>>

GetClusterId ==
    /\ pc = "get_cluster_id"
    /\ \E r \in CallResults :
         /\ requests' = Append(requests, Req("GET", CLUSTER_URI, None, r))
         /\ IF Raised(r) THEN Raise(r) /\ returned' = returned
            ELSE /\ returned' = get_cluster_id(r, params.cluster)
                 /\ pc' = "returned"
                 /\ exc' = exc
    /\ UNCHANGED << inputs, locals, op, existing_profile, executed, seen, outcome, run,
                    previous >>

GetGroupIdsForClusters ==
    /\ pc = "get_group_ids_for_clusters"
    /\ \E r \in CallResults, r2 \in CallResults :
         LET g == get_group_ids_for_clusters(r, r2, params.cluster)
         IN  /\ requests' = requests \o g.requests
             /\ IF g.raised # NoExc THEN Raise(g.raised) /\ returned' = returned
                ELSE /\ returned' = g.value
                     /\ pc' = "returned"
                     /\ exc' = exc
    /\ UNCHANGED << inputs, locals, op, existing_profile, executed, seen, outcome, run,
                    previous >>

GetAddRemoveGroupIds ==
    /\ pc = "get_add_remove_group_ids"
    /\ \E r \in CallResults, r2 \in CallResults :
         LET g == get_group_ids_for_clusters(r, r2, params.cluster)
         IN  /\ requests' = requests \o g.requests
             /\ IF g.raised # NoExc THEN Raise(g.raised) /\ returned' = returned
                ELSE /\ returned' = get_add_remove_group_ids(existing_profile, g.value)
                     /\ pc' = "returned"
                     /\ exc' = exc
    /\ UNCHANGED << inputs, locals, op, existing_profile, executed, seen, outcome, run,
                    previous >>

\* ------------------------- ModifyBaselineProfile.diff_mode_check, directly
\* A profile whose stored representation carries a schedule that is not the
\* one its drift job runs by.
StaleScheduleProfile == ("jobSchedule" :> AllDays("20:00")) @@ StoredProfile2

DiffProfiles == { StoredProfile1, StoredProfile2, StaleScheduleProfile }

\* old_job_schedule: the schedule entry of get_current_job_schedule's answer.
stored_job_schedule(r, profile) ==
    IF "jobSchedule" \in DOMAIN profile THEN profile.jobSchedule ELSE Absent

old_job_schedule(r, profile) ==
    IF r.success THEN LiveSchedule(profile.driftJobId) ELSE Absent

ModifyDiffModeCheck ==
    /\ pc = "modify_diff_mode_check"
    /\ \E r \in CallResults, r2 \in CallResults, r3 \in CallResults, r4 \in CallResults :
         LET get == Req("GET", CLUSTER_URI, None, r)
             g == get_group_ids_for_clusters(r2, r3, params.cluster)
             drift == Req("GET", DRIFT_URI, existing_profile.driftJobId, r4)
         IN  IF Raised(r)
             THEN /\ requests' = << get >>
                  /\ Raise(r) /\ UNCHANGED << cluster_ids, group_ids, returned >>
             ELSE IF g.raised # NoExc
             THEN /\ requests' = << get >> \o g.requests
                  /\ Raise(g.raised) /\ UNCHANGED << cluster_ids, group_ids, returned >>
             ELSE IF Raised(r4)
             THEN /\ requests' = << get >> \o g.requests \o << drift >>
                  /\ Raise(r4) /\ UNCHANGED << cluster_ids, group_ids, returned >>
             ELSE /\ requests' = << get >> \o g.requests \o << drift >>
                  /\ cluster_ids' = get_cluster_id(r, params.cluster)
                  /\ group_ids' = g.value
                  /\ returned' = modify_diff_mode_check(params, payload, existing_profile,
                                                        cluster_ids', group_ids',
                                                        old_job_schedule(r4, existing_profile))
                  /\ pc' = "returned"
                  /\ exc' = exc
    /\ UNCHANGED << inputs, payload, diff, op, existing_profile, executed, seen, outcome, run,
                    previous >>

\* ------------------------------------------------------------ specification
Fresh ==
    /\ diff = Absent
    /\ cluster_ids = <<>>
    /\ group_ids = <<>>
    /\ executed = <<>>
    /\ requests = <<>>
    /\ seen = <<>>
    /\ exc = NoExc
    /\ outcome = NoOutcome
    /\ run = 1
    /\ previous = None
    /\ returned = Absent

InitMain ==
    /\ entry = "main"
    /\ params \in PresentParams \cup AbsentParams
    /\ check_mode \in BOOLEAN
    /\ diff_mode \in BOOLEAN
    /\ stored \in ProfileListings
    /\ pc = "main"
    /\ op = None
    /\ existing_profile = EmptyDict
    /\ payload = Absent
    /\ Fresh

\* A submit-and-poll method called directly, with the payload execute() builds
\* for the parameters when each of its lookups succeeds.
DirectParams ==
    { p \in PresentParams : ~validate_job_wait(p) /\ validate_time(p.time) }

InitPerformCreate ==
    /\ entry = "perform_create"
    /\ params \in { p \in DirectParams : p.name = "bp3" }
    /\ stored = << StoredProfile1 >>
    /\ op = "CreateBaselineProfile"
    /\ existing_profile = EmptyDict
    /\ payload = ExecuteCreatePayload(params)
    /\ diff = Absent

InitPerformModify ==
    /\ entry = "perform_modify"
    /\ params \in { p \in DirectParams : p.name = "bp1" }
    /\ stored = << StoredProfile1 >>
    /\ op = "ModifyBaselineProfile"
    /\ existing_profile = StoredProfile1
    /\ payload = ExecuteModifyPayload(params, existing_profile)
    /\ diff = ExecuteModifyDiff(params, existing_profile)

InitPerformDelete ==
    /\ entry = "perform_delete"
    /\ params \in AbsentParams
    /\ stored = << StoredProfile2, StoredProfile1 >>
    /\ op = "DeleteBaselineProfile"
    /\ existing_profile \in { StoredProfile1, StoredProfile2 }
    /\ existing_profile.name = params.name
    /\ payload = Absent
    /\ diff = Absent

InitDirect ==
    /\ (InitPerformCreate \/ InitPerformModify \/ InitPerformDelete)
    /\ check_mode = FALSE
    /\ diff_mode \in BOOLEAN
    /\ pc = entry
    /\ cluster_ids = <<>>
    /\ group_ids = <<>>
    /\ executed = <<>>
    /\ requests = <<>>
    /\ seen = <<>>
    /\ exc = NoExc
    /\ outcome = NoOutcome
    /\ run = 1
    /\ previous = None
    /\ returned = Absent

InitHelper ==
    /\ entry \in {"create_job_schedule", "get_cluster_id", "get_group_ids_for_clusters",
                  "get_add_remove_group_ids"}
    /\ params \in IF entry = "create_job_schedule" THEN ScheduleArgs ELSE ClusterArgs
    /\ existing_profile \in IF entry = "get_add_remove_group_ids" THEN AttachedProfiles
                             ELSE { EmptyDict }
    /\ check_mode = FALSE
    /\ diff_mode = FALSE
    /\ stored = <<>>
    /\ pc = entry
    /\ op = None
    /\ payload = Absent
    /\ Fresh

InitModifyDiff ==
    /\ entry = "modify_diff_mode_check"
    /\ existing_profile \in DiffProfiles
    /\ params \in { [p EXCEPT !.name = existing_profile.name] :
                      p \in { q \in DirectParams : q.name = "bp1" /\ q.job_wait } }
    /\ payload = ExecuteModifyPayload(params, existing_profile)
    /\ op = "ModifyBaselineProfile"
    /\ check_mode = FALSE
    /\ diff_mode = FALSE
    /\ stored = << StoredProfile2, StoredProfile1 >>
    /\ pc = entry
    /\ Fresh

Init == InitMain \/ InitDirect \/ InitHelper \/ InitModifyDiff

Next ==
    \/ MainPresent
    \/ MainAbsent
    \/ CreateExecute
    \/ ModifyExecute
    \/ DeleteExecute
    \/ MainExcept
    \/ Rerun
    \/ PerformCreate
    \/ PerformModify
    \/ Poll
    \/ CreateDiffClusterIds
    \/ CreateDiffGroupIds
    \/ CreateReport
    \/ ModifyReport
    \/ PerformDelete
    \/ CreateJobSchedule
    \/ GetClusterId
    \/ GetGroupIdsForClusters
    \/ GetAddRemoveGroupIds
    \/ ModifyDiffModeCheck

Spec == Init /\ [][Next]_vars

\* perform_create_baseline_profile and perform_modify_baseline_profile on their
\* own.  The code is sequential and blocks only in its calls, each of which
\* returns or raises: a step that can be taken is taken.
InitPoll ==
    /\ InitDirect
    /\ entry \in {"perform_create", "perform_modify"}
    /\ params.repository_profile = "r1"
    /\ params.description = "d1"

PollNext ==
    \/ PerformCreate
    \/ PerformModify
    \/ Poll
    \/ CreateDiffClusterIds
    \/ CreateDiffGroupIds
    \/ CreateReport
    \/ ModifyReport

PollSpec == InitPoll /\ [][PollNext]_vars /\ WF_vars(PollNext)

\* ------------------------------------------------------------- properties
ModuleRun == entry = "main"

Submit(req) == req.uri = BASELINE_PROFILE_URI /\ req.method \in {"POST", "PATCH", "DELETE"}

StatusPoll(req) == req.uri = BASELINE_PROFILE_URI /\ req.method = "GET" /\ req.id # None

\* A backend call of this invocation raised HTTPError or URLError.
TransportRaised == \E i \in DOMAIN requests : Raised(requests[i].result)

\* The baseline-profile listing main or DeleteBaselineProfile.execute asked for
\* came back with success set.
ListingSucceeded ==
    /\ requests # <<>>
    /\ requests[1] = get_baseline_profiles_request([kind |-> "resp", success |-> TRUE])

NameStored == \E i \in DOMAIN stored : stored[i].name = params.name

ListedRepositoryNames == { RepositoryListing[i].profileName : i \in DOMAIN RepositoryListing }
ListedClusterNames == { ClusterListing[i].name : i \in DOMAIN ClusterListing }

RepositoryListed == params.repository_profile \in ListedRepositoryNames
ClustersListed == \A i \in DOMAIN params.cluster : params.cluster[i] \in ListedClusterNames

PrimitivesValid == ~validate_job_wait(params) /\ validate_time(params.time)

ValidInputs == PrimitivesValid /\ RepositoryListed /\ ClustersListed

CurrentGroupIds(profile) ==
    { profile.clusterGroups[i].omevv_groupID : i \in DOMAIN profile.clusterGroups }

\* The request matches the stored profile in groups, repository, description
\* and schedule.
Unchanged(p, profile) ==
    /\ Range(ResolvedGroupIds(p)) = CurrentGroupIds(profile)
    /\ p.repository_profile = profile.firmwareRepoName
    /\ ResolvedRepoId(p) = profile.firmwareRepoId
    /\ p.description = profile.description
    /\ create_job_schedule(p.days, p.time) = LiveSchedule(profile.driftJobId)

\* C1: in check mode an invocation of the module never issues a POST, PATCH or
\* DELETE request, whichever of create, modify and delete it runs.
C1_CheckModeNeverMutates ==
    (ModuleRun /\ check_mode) =>
        \A i \in DOMAIN requests : requests[i].method \notin {"POST", "PATCH", "DELETE"}

C1_Witness ==
    /\ ModuleRun /\ check_mode /\ pc = "done"
    /\ op = "DeleteBaselineProfile"
    /\ outcome.msg = CHANGES_FOUND_MSG /\ outcome.changed
    /\ requests # <<>>

\* C2: a create (no profile of that name) or a modify with a real diff, outside
\* check mode and with valid inputs, submits exactly one mutating request (POST
\* to the collection, PATCH to the existing profile's id), and every status poll
\* comes after a submit that reported success.
C2_ExactlyOneSubmit ==
    /\ \A j \in DOMAIN requests :
         (ModuleRun /\ StatusPoll(requests[j])) =>
             \E i \in 1..(j - 1) :
                 Submit(requests[i]) /\ requests[i].result = [kind |-> "resp", success |-> TRUE]
    /\ ( /\ ModuleRun /\ pc = "done" /\ params.state = "present" /\ ~check_mode
         /\ ValidInputs /\ ListingSucceeded /\ ~TransportRaised
         /\ \/ op = "CreateBaselineProfile"
            \/ op = "ModifyBaselineProfile"
                 /\ ExecuteModifyDiff(params, existing_profile) # NoOpDiff )
       => LET submits == { i \in DOMAIN requests : Submit(requests[i]) }
          IN  /\ Cardinality(submits) = 1
              /\ \A i \in submits :
                   IF op = "CreateBaselineProfile"
                   THEN requests[i].method = "POST" /\ requests[i].id = None
                   ELSE requests[i].method = "PATCH" /\ requests[i].id = existing_profile.id

C4_SecondModifyIsNoOp ==
    ( /\ ModuleRun /\ run = 2 /\ previous = "exit" /\ pc = "done"
      /\ op = "ModifyBaselineProfile" /\ ValidInputs /\ ~TransportRaised )
    => /\ diff = NoOpDiff
       /\ outcome.msg = CHANGES_NOT_FOUND_MSG
       /\ ~outcome.changed /\ ~outcome.failed
       /\ \A i \in DOMAIN requests : ~Submit(requests[i])

\* C5: a modify whose resolved group ids, repository, description and schedule
\* equal the existing profile's exits with the no-changes message and
\* changed=false and issues no PATCH, in check mode and outside it.
C5_UnchangedModifyReportsNoChange ==
    ( /\ ModuleRun /\ pc = "done" /\ op = "ModifyBaselineProfile"
      /\ ValidInputs /\ ~TransportRaised
      /\ Unchanged(params, existing_profile) )
    => /\ outcome.msg = CHANGES_NOT_FOUND_MSG
       /\ ~outcome.changed /\ ~outcome.failed
       /\ \A i \in DOMAIN requests : requests[i].method # "PATCH"

\* C6: deleting a name that no stored profile has never issues a DELETE and
\* ends with changed=false and the no-changes message, for every combination
\* of check mode and diff mode.
C6_DeleteOfAbsentProfile ==
    (ModuleRun /\ params.state = "absent" /\ ~NameStored) =>
        /\ \A i \in DOMAIN requests : requests[i].method # "DELETE"
        /\ ~outcome.changed
        /\ (pc = "done" /\ ~TransportRaised) =>
             /\ outcome.exited
             /\ outcome.msg = CHANGES_NOT_FOUND_MSG
             /\ ~outcome.failed /\ ~outcome.skipped /\ ~outcome.unreachable

C6_Witness ==
    /\ ModuleRun /\ params.state = "absent" /\ ~NameStored /\ pc = "done"
    /\ stored # <<>> /\ ~check_mode /\ diff_mode
    /\ outcome.msg = CHANGES_NOT_FOUND_MSG /\ outcome.diff = NoOpDiff

\* C7: deleting a stored profile outside check mode submits exactly one DELETE
\* keyed by the profile's id, polls nothing, and reports by that call's result:
\* success gives the deletion success message with changed, no success gives
\* the deletion failure message with failed.
C7_DeleteSubmitsOnce ==
    ( /\ ModuleRun /\ pc = "done" /\ params.state = "absent" /\ ~check_mode
      /\ ListingSucceeded /\ NameStored /\ ~TransportRaised )
    => LET deletes == { i \in DOMAIN requests : requests[i].method = "DELETE" }
       IN  /\ Cardinality(deletes) = 1
           /\ \A i \in DOMAIN requests : ~StatusPoll(requests[i])
           /\ \A i \in deletes :
                /\ requests[i].uri = BASELINE_PROFILE_URI
                /\ requests[i].id = existing_profile.id
                /\ IF requests[i].result.success
                   THEN outcome.msg = SUCCESS_DELETION_MSG /\ outcome.changed
                   ELSE outcome.msg = FAILED_DELETION_MSG /\ outcome.failed

\* C8: an invocation enters the execute() of at most one operation, and of
\* exactly one once it is done unless the name lookup itself raised: Delete for
\* state=absent; for state=present Modify if the listing holds a profile with
\* exactly the given name and Create if not.
C8_OneOperationByStateAndName ==
    ModuleRun =>
        /\ Len(executed) <= 1
        /\ executed # <<>> =>
             /\ executed[1] = op
             /\ params.state = "absent" => executed[1] = "DeleteBaselineProfile"
             /\ params.state = "present" =>
                  /\ executed[1] \in {"CreateBaselineProfile", "ModifyBaselineProfile"}
                  /\ ListingSucceeded =>
                       (executed[1] = "ModifyBaselineProfile" <=> NameStored)
        /\ ( pc = "done" /\ ~(params.state = "present" /\ Raised(requests[1].result)) )
             => Len(executed) = 1

C8_Witness ==
    /\ ModuleRun /\ pc = "done" /\ params.state = "present"
    /\ Len(stored) = 2 /\ NameStored
    /\ executed = << "ModifyBaselineProfile" >>

\* C9: a create or modify whose repository-profile name or one of whose cluster
\* names is not listed ends with failed=true and the matching domain message,
\* and issues no POST or PATCH to the baseline-profile endpoint.
C9_InvalidNamesRejected ==
    ( /\ ModuleRun /\ pc = "done" /\ params.state = "present"
      /\ PrimitivesValid /\ ~TransportRaised
      /\ ~(RepositoryListed /\ ClustersListed) )
    => /\ outcome.failed
       /\ outcome.msg = IF ~RepositoryListed THEN INVALID_REPO_PROFILE_MSG
                        ELSE INVALID_CLUSTER_NAMES_MSG
       /\ \A i \in DOMAIN requests : ~Submit(requests[i])

\* C10: the repository id resolved for a name is the id of the listed profile
\* with exactly that name and None when there is none, and a create or modify
\* asked for such a name ends with failed=true and the invalid-repository
\* message, not with unreachable.
C10_AbsentRepositoryIsDomainError ==
    LET ok == [kind |-> "resp", success |-> TRUE]
    IN  /\ \A n \in {"r1", "r2", "rX", "R1"} :
             get_repo_id_by_name(ok, n) =
                 IF \E i \in DOMAIN RepositoryListing : RepositoryListing[i].profileName = n
                 THEN RepositoryListing[CHOOSE i \in DOMAIN RepositoryListing :
                                          RepositoryListing[i].profileName = n].id
                 ELSE None
        /\ ( /\ ModuleRun /\ pc = "done" /\ params.state = "present"
             /\ PrimitivesValid /\ ~TransportRaised
             /\ get_repo_id_by_name(ok, params.repository_profile) = None )
           => /\ outcome.failed /\ ~outcome.unreachable
              /\ outcome.msg = INVALID_REPO_PROFILE_MSG

\* What a check-mode run of main with diff mode on reports as diff for the
\* parameters and the backend of this invocation.
CheckModeDiff ==
    IF params.state = "absent"
    THEN IF existing_profile # EmptyDict
         THEN delete_diff_mode_check(existing_profile, TRUE)
         ELSE Absent
    ELSE IF validate_common_params(params).kind # "call"
    THEN Absent
    ELSE IF op = "CreateBaselineProfile"
    THEN create_diff_mode_check(params, ExecuteCreatePayload(params),
                                ResolvedClusterIds(params), ResolvedGroupIds(params))
    ELSE ExecuteModifyDiff(params, existing_profile)

\* C11: a run of the module outside check mode with diff mode on reports the
\* same diff as the check-mode run with diff mode on does for the same
\* parameters and the same backend, for create, modify and delete.
C11_RealRunReportsCheckModeDiff ==
    ( /\ ModuleRun /\ pc = "done" /\ diff_mode /\ ~check_mode
      /\ ListingSucceeded /\ ~TransportRaised )
    => outcome.diff = CheckModeDiff

SevenDays == {"monday", "tuesday", "wednesday", "thursday", "friday", "saturday", "sunday"}

FullSchedule(sched, time) ==
    /\ DOMAIN sched = SevenDays \cup {"time"}
    /\ \A d \in SevenDays : sched[d] \in BOOLEAN
    /\ sched.time = time

ScheduleReturned == entry = "create_job_schedule" /\ pc = "returned"

\* C12 as stated: create_job_schedule returns None whenever days is empty or
\* None or time is None, and for every other input a schedule with all seven
\* day flags and the time as given.
C12_NoneIffDaysEmptyOrTimeNone ==
    ScheduleReturned =>
        IF params.days = {} \/ params.time = None
        THEN returned = Absent
        ELSE FullSchedule(returned, params.time)

\* C12: create_job_schedule returns None whenever days is empty or None or
\* time is None or the empty string, and for every other input a schedule with
\* all seven day flags and the time as given; it never returns a partial
\* schedule.
C12_NoneIffDaysOrTimeFalse ==
    ScheduleReturned =>
        IF params.days = {} \/ params.time = None \/ params.time = ""
        THEN returned = Absent
        ELSE FullSchedule(returned, params.time)

C12_Witness ==
    /\ ScheduleReturned
    /\ params.days = {"monday", "friday"} /\ params.time = ""
    /\ returned = Absent

\* C13: for a non-empty day set and a time that is given, the schedule has all
\* seven flags true if the token all is in the day set, whatever else is, and
\* otherwise each flag is true exactly when its day name, in lower case as
\* written, is in the day set.
C13_FlagsByAllOrExactName ==
    (ScheduleReturned /\ params.days # {} /\ Truthy(params.time)) =>
        IF "all" \in params.days
        THEN \A d \in SevenDays : returned[d]
        ELSE \A d \in SevenDays : returned[d] <=> d \in params.days

C13_Witness ==
    /\ ScheduleReturned
    /\ params.days = {"all", "Monday", "friday"} /\ params.time = "8 am"
    /\ returned.tuesday /\ returned.monday

\* The group ids the resolution of this call gave: those of the listed
\* clusters that are asked for when both lookups reported success, none if not.
DesiredGroupIds ==
    IF Len(requests) = 2 /\ requests[1].result.success /\ requests[2].result.success
    THEN { GroupOf(ClusterListing[i].entityId) :
             i \in { j \in DOMAIN ClusterListing : ClusterListing[j].name \in Range(params.cluster) } }
    ELSE {}

\* C14: get_add_remove_group_ids returns as groups to add the freshly resolved
\* group ids that the existing profile does not have, and as groups to remove
\* the existing profile's group ids that were not resolved; both are empty
\* exactly when the two sets are equal.
C14_AddAndRemoveAreSetDifferences ==
    (entry = "get_add_remove_group_ids" /\ pc = "returned") =>
        LET existing == CurrentGroupIds(existing_profile)
            desired == DesiredGroupIds
        IN  /\ returned.add_group_ids = desired \ existing
            /\ returned.remove_group_ids = existing \ desired
            /\ (returned.add_group_ids = {} /\ returned.remove_group_ids = {})
                  <=> desired = existing

C14_Witness ==
    /\ entry = "get_add_remove_group_ids" /\ pc = "returned"
    /\ existing_profile = StaleProfile
    /\ params.cluster = << "c2", "c1" >>
    /\ returned = [add_group_ids |-> {"g2"}, remove_group_ids |-> {"g3"}]

GroupLookups ==
    { i \in DOMAIN requests :
        requests[i].method = "POST" /\ requests[i].uri = CLUSTER_IDS_URI }

\* C15: get_group_ids_for_clusters issues the batched getGroupsForClusters
\* lookup exactly once when the cluster ids it resolved are not empty, and when
\* they are empty it issues no batched lookup and returns the empty list; a
\* batched lookup always directly follows a cluster listing that succeeded.
C15_BatchedLookupOnlyForIds ==
    /\ (entry = "get_group_ids_for_clusters" /\ pc = "returned") =>
          IF get_cluster_id(requests[1].result, params.cluster) # <<>>
          THEN Cardinality(GroupLookups) = 1
          ELSE GroupLookups = {} /\ returned = <<>>
    /\ \A i \in GroupLookups :
          /\ i > 1
          /\ requests[i - 1] = Req("GET", CLUSTER_URI, None, [kind |-> "resp", success |-> TRUE])
          /\ cluster_ids_of(ClusterListing, params.cluster) # <<>>

C15_Witness ==
    /\ entry = "get_group_ids_for_clusters" /\ pc = "returned"
    /\ params.cluster = << "cX" >>
    /\ requests = << Req("GET", CLUSTER_URI, None, [kind |-> "resp", success |-> TRUE]) >>
    /\ returned = <<>>

ListingIndex(entityId) ==
    CHOOSE i \in DOMAIN ClusterListing : ClusterListing[i].entityId = entityId

\* C16: get_cluster_id returns exactly the entity ids of the listed clusters
\* whose name is among the requested names, in the order of the listing and not
\* of the request; a requested name that no listed cluster has is dropped, so
\* the result is never longer than the request.
C16_ClusterIdsInListingOrder ==
    ( /\ entry = "get_cluster_id" /\ pc = "returned"
      /\ requests[1].result.success )
    => /\ Range(returned) =
            { ClusterListing[i].entityId :
                i \in { j \in DOMAIN ClusterListing :
                          ClusterListing[j].name \in Range(params.cluster) } }
       /\ \A a, b \in DOMAIN returned :
            a < b => ListingIndex(returned[a]) < ListingIndex(returned[b])
       /\ Len(returned) <= Len(params.cluster)
       /\ Len(returned) =
            Cardinality({ i \in DOMAIN params.cluster :
                            params.cluster[i] \in ListedClusterNames })

C16_Witness ==
    /\ entry = "get_cluster_id" /\ pc = "returned"
    /\ params.cluster = << "c2", "c1" >>
    /\ returned = << "e1", "e2" >>

Polling == pc \in {"create_poll", "modify_poll"}

C18_JobWaitDecidesPolling ==
    (entry \in {"main", "perform_create", "perform_modify"}) =>
        IF params.job_wait
        THEN Len(seen) > 1 => (Len(seen) - 1) * SleepSeconds <= params.job_wait_timeout
        ELSE \A i \in DOMAIN requests : ~StatusPoll(requests[i])

SameCall(a, b) == a.method = b.method /\ a.uri = b.uri /\ a.id = b.id

C20_UrlErrorIsUnreachable ==
    (ModuleRun /\ pc = "done") =>
        /\ (\E i \in DOMAIN requests : requests[i].result.kind = "URLError") =>
              /\ outcome.exited
              /\ outcome.unreachable /\ ~outcome.failed
        /\ (\E i \in DOMAIN requests : requests[i].result.kind = "HTTPError") =>
              ~outcome.unreachable
        /\ outcome.unreachable => exc.kind = "URLError"

C20_Witness ==
    /\ ModuleRun /\ pc = "done" /\ op = "DeleteBaselineProfile"
    /\ exc.kind = "URLError"
    /\ outcome.unreachable /\ outcome.msg = "urlopen error"

AlreadyExists(e) == e.errorCode = << "1", "8", "0", "0", "1" >>

\* C21: a run of the module in which a backend call raised HTTPError ends with
\* failed=true: for HTTP status 500 with the body of the answer as message, and
\* for every other error, the already-exists code in check mode apart, with the
\* backend's message as message and its error code and message as error_info.
C21_HttpErrorFails ==
    (ModuleRun /\ pc = "done" /\ exc.kind = "HTTPError") =>
        IF exc.code = 500
        THEN outcome.failed /\ outcome.msg = exc.body
        ELSE ~(AlreadyExists(exc) /\ check_mode) =>
                /\ outcome.failed
                /\ outcome.msg = exc.message
                /\ outcome.error_info = [errorCode |-> exc.errorCode, message |-> exc.message]

\* C22: when a backend call raises HTTPError with error code 18001, a run in
\* check mode ends with the no-changes message, neither failed nor changed, and
\* a run outside check mode ends with failed=true.
C22_AlreadyExistsInCheckMode ==
    (ModuleRun /\ pc = "done" /\ exc.kind = "HTTPError" /\ exc.code # 500 /\ AlreadyExists(exc)) =>
        IF check_mode
        THEN /\ outcome.exited /\ outcome.msg = CHANGES_NOT_FOUND_MSG
             /\ ~outcome.failed /\ ~outcome.changed
             /\ ~outcome.skipped /\ ~outcome.unreachable
        ELSE outcome.failed /\ ~outcome.changed /\ outcome.msg = exc.message

C22_Witness ==
    /\ ModuleRun /\ pc = "done" /\ check_mode /\ params.state = "present"
    /\ exc.kind = "HTTPError" /\ exc.code = 400 /\ AlreadyExists(exc)
    /\ outcome.msg = CHANGES_NOT_FOUND_MSG /\ ~outcome.failed

LocalErrors == {"TypeError", "IndexError", "KeyError", "AttributeError", "ValueError", "IOError"}

\* C23: a local error (type, index, key, attribute, value or IO error) raised
\* in an operation of a run of the module is caught by main, which ends the run
\* with failed=true and the error's text as message; no backend call follows
\* it, and no exception escapes main.
C23_LocalErrorsAreCaught ==
    ModuleRun =>
        /\ pc # "raised"
        /\ (exc.kind \in LocalErrors /\ pc = "done") =>
              /\ outcome.exited /\ outcome.failed /\ ~outcome.changed
              /\ outcome.msg = exc.message
              /\ Len(requests) = 1
              /\ ~Raised(requests[1].result)

C23_Witness ==
    /\ ModuleRun /\ pc = "done" /\ params.state = "absent"
    /\ exc.kind = "AttributeError"
    /\ outcome.failed /\ outcome.msg = NO_ATTRIBUTE_MSG

IsLookup(req) ==
    \/ req.method = "GET" /\ req.id = None
    \/ req.method = "POST" /\ req.uri = CLUSTER_IDS_URI

\* C24: a lookup of the name resolution (baseline-profile list, cluster list,
\* group-id lookup) whose response reports no success ends the resolution with
\* a transport error in flight; it is not read as an empty result.
C24_FetchFailurePropagates ==
    \A i \in DOMAIN requests :
        ( /\ IsLookup(requests[i])
          /\ requests[i].result.kind = "resp"
          /\ ~requests[i].result.success )
        => exc.kind \in {"HTTPError", "URLError"}

\* C25: when the payload of a create lacks name, firmware repo id or group
\* ids, perform_create_baseline_profile still issues the POST to the
\* baseline-profiles endpoint with that payload, and the call's recorded
\* message ends nothing: the method goes on by the POST's response alone and
\* never reports the message.
C25_MissingParametersStillPosted ==
    ( /\ entry = "perform_create" /\ pc # "perform_create"
      /\ MissingRequired(payload) )
    => /\ requests # <<>>
       /\ requests[1].method = "POST" /\ requests[1].uri = BASELINE_PROFILE_URI
       /\ requests[1].payload = payload
       /\ outcome.msg # REQUIRED_PARAMETERS_MSG
       /\ (requests[1].result.kind = "resp" /\ requests[1].result.success /\ outcome.exited)
            => seen # <<>>
       /\ (requests[1].result.kind = "resp" /\ ~requests[1].result.success)
            => outcome.msg = FAILED_CREATION_MSG

C25_Witness ==
    /\ entry = "perform_create" /\ pc = "done"
    /\ payload.firmwareRepoId = None /\ payload.groupIds = <<>>
    /\ requests[1].method = "POST"
    /\ outcome.changed /\ outcome.msg = SUCCESS_CREATION_MSG

ModifyDiffReturned == entry = "modify_diff_mode_check" /\ pc = "returned"

SixKeys == {"name", "firmwareRepoId", "firmwareRepoName", "clusterGroups", "description",
            "jobSchedule"}

\* The schedule the update-job lookup of this call answered with.
LiveScheduleSeen ==
    IF requests[Len(requests)].result.success
    THEN LiveSchedule(existing_profile.driftJobId) ELSE Absent

Before6 ==
    [k \in (DOMAIN existing_profile \cap SixKeys) \cup {"jobSchedule"} |->
        IF k = "jobSchedule" THEN LiveScheduleSeen ELSE existing_profile[k]]

After6 ==
    [name |-> params.name,
     firmwareRepoId |-> payload.firmwareRepoId,
     firmwareRepoName |-> params.repository_profile,
     clusterGroups |-> zip_cluster_groups(params.cluster, cluster_ids, group_ids),
     description |-> params.description,
     jobSchedule |-> payload.jobSchedule]

Reverse(seq) == [i \in DOMAIN seq |-> seq[Len(seq) + 1 - i]]

AllSucceeded ==
    \A i \in DOMAIN requests :
        requests[i].result.kind = "resp" /\ requests[i].result.success

\* C26: modify's diff_mode_check returns the no-op diff exactly when the
\* existing profile projected onto the six keys, its jobSchedule replaced by
\* the schedule the update-job lookup gave, equals the desired six fields; and
\* when it does not, the before side it returns is that projection.
C26_ModifyBeforeIsLiveProjection ==
    ModifyDiffReturned =>
        /\ (returned = NoOpDiff) <=> (Before6 = After6)
        /\ returned # NoOpDiff =>
             /\ returned.before = Sparse(Before6)
             /\ returned.after = Sparse(After6)

C26_Witness ==
    /\ ModifyDiffReturned
    /\ existing_profile = StaleScheduleProfile
    /\ params.days = {"all", "friday"}
    /\ AllSucceeded
    /\ returned # NoOpDiff
    /\ returned.before.jobSchedule = Monday0800
    /\ returned.after.jobSchedule = AllDays("08:00")

\* C27: whether modify's diff_mode_check returns the no-op diff does not
\* depend on the order of the requested cluster names: the request with the
\* names in reverse order gets the same decision (every requested name being
\* one the cluster listing knows).
C27_NoOpIgnoresClusterOrder ==
    (ModifyDiffReturned /\ AllSucceeded /\ Len(cluster_ids) = Len(params.cluster)) =>
        ( (returned = NoOpDiff) <=>
          (ExecuteModifyDiff([params EXCEPT !.cluster = Reverse(params.cluster)],
                             existing_profile) = NoOpDiff) )

\* The desired fields of a create, as the call under way determined them.
CreateDesired ==
    [name |-> params.name,
     firmwareRepoId |-> payload.firmwareRepoId,
     firmwareRepoName |-> params.repository_profile,
     clusterGroups |-> zip_cluster_groups(params.cluster, cluster_ids, group_ids),
     description |-> params.description,
     jobSchedule |-> create_job_schedule(params.days, params.time)]

CreateDiffEmitted ==
    /\ op = "CreateBaselineProfile" /\ pc = "done"
    /\ outcome.exited /\ outcome.diff # Absent

\* C28: the diff a create reports has before = {} and after = the desired
\* six fields without the keys whose value is None.
C28_CreateDiff ==
    CreateDiffEmitted =>
        /\ outcome.diff.before = EmptyDict
        /\ DOMAIN outcome.diff.after =
               { k \in SixKeys : ~IsNoneAt(k, CreateDesired[k]) }
        /\ \A k \in DOMAIN outcome.diff.after : outcome.diff.after[k] = CreateDesired[k]

C28_Witness ==
    /\ CreateDiffEmitted
    /\ params.description = None
    /\ params.repository_profile = "rX"
    /\ DOMAIN outcome.diff.after = {"name", "firmwareRepoName", "clusterGroups", "jobSchedule"}
    /\ outcome.diff.after.clusterGroups # <<>>

DeletedInCheckMode ==
    /\ ModuleRun /\ pc = "done" /\ params.state = "absent" /\ check_mode
    /\ ListingSucceeded /\ NameStored

DeleteProjection ==
    [name |-> existing_profile.name,
     description |-> existing_profile.description,
     firmwareRepoId |-> existing_profile.firmwareRepoId,
     firmwareRepoName |-> existing_profile.firmwareRepoName,
     clusterGroups |-> existing_profile.clusterGroups]

NoDelete == \A i \in DOMAIN requests : requests[i].method # "DELETE"

\* C29 as stated: deleting a stored profile in check mode reports changed
\* with the diff whose before is the five-key projection of the profile and
\* whose after is {}, and issues no DELETE.
C29_CheckModeDeleteReportsDiff ==
    DeletedInCheckMode =>
        /\ outcome.changed /\ ~outcome.failed
        /\ outcome.diff = [before |-> DeleteProjection, after |-> EmptyDict]
        /\ NoDelete

\* C29, amended: deleting a stored profile in check mode reports changed and
\* issues no DELETE; with diff mode on it reports the diff whose before is the
\* five-key projection of the profile and whose after is {}, and with diff
\* mode off it reports no diff.
C29_CheckModeDeleteReportsDiffInDiffMode ==
    DeletedInCheckMode =>
        /\ outcome.changed /\ ~outcome.failed
        /\ outcome.msg = CHANGES_FOUND_MSG
        /\ existing_profile.name = params.name
        /\ outcome.diff = IF diff_mode
                          THEN [before |-> DeleteProjection, after |-> EmptyDict]
                          ELSE Absent
        /\ NoDelete

C29_Witness ==
    /\ DeletedInCheckMode /\ diff_mode
    /\ params.name = "bp2"
    /\ outcome.diff.before.clusterGroups = StoredProfile2.clusterGroups
    /\ outcome.diff.after = EmptyDict

HasNone(d) == \E k \in DOMAIN d : IsNoneAt(k, d[k])

\* C30: no diff an invocation reports has, in its before map or in its after
\* map, a key whose value is None.
C30_EmittedDiffsAreSparse ==
    (pc = "done" /\ outcome.exited /\ outcome.diff # Absent) =>
        /\ ~HasNone(outcome.diff.before)
        /\ ~HasNone(outcome.diff.after)

ModifyBodyFields ==
    {"addGroupIds", "removeGroupIds", "jobSchedule", "description", "firmwareRepoId",
     "configurationRepoId", "driverRepoId", "modifiedBy"}

ToAddToRemove == get_add_remove_group_ids(existing_profile, ResolvedGroupIds(params))

\* C31: the body of every PATCH has exactly the fields addGroupIds,
\* removeGroupIds, jobSchedule, description, firmwareRepoId,
\* configurationRepoId, driverRepoId and modifiedBy; addGroupIds and
\* removeGroupIds are the computed sets, the two repository ids left to their
\* default are 0 and modifiedBy is the fixed actor.
C31_ModifyBody ==
    \A i \in DOMAIN requests :
        requests[i].method = "PATCH" =>
            LET body == requests[i].payload
            IN  /\ DOMAIN body = ModifyBodyFields
                /\ body.addGroupIds = ToAddToRemove.add_group_ids
                /\ body.removeGroupIds = ToAddToRemove.remove_group_ids
                /\ body.configurationRepoId = 0
                /\ body.driverRepoId = 0
                /\ body.modifiedBy = "Administrator@VSPHERE.LOCAL"

\* The diffs with a clusterGroups list that a create or a modify has built,
\* every backend call so far having succeeded.
BuiltDiffs ==
    IF ~AllSucceeded THEN {}
    ELSE IF ModifyDiffReturned /\ returned # NoOpDiff THEN { returned }
    ELSE IF entry = "perform_create" /\ pc = "create_report" THEN { diff }
    ELSE {}

RightlyPaired(e) ==
    /\ e.clusterName \in Range(params.cluster)
    /\ \E i \in DOMAIN ClusterListing :
          /\ ClusterListing[i].name = e.clusterName
          /\ ClusterListing[i].entityId = e.clusterID
    /\ e.omevv_groupID = GroupOf(e.clusterID)

\* C32: in a create or modify diff every clusterGroups entry pairs a requested
\* cluster name with the entity id and the group id of the cluster of that
\* name in the backend listing, and there is exactly one entry for each
\* requested name the listing has.
C32_ClusterGroupsPairing ==
    \A d \in BuiltDiffs :
        LET groups == d.after.clusterGroups
        IN  /\ \A i \in DOMAIN groups : RightlyPaired(groups[i])
            /\ { groups[i].clusterName : i \in DOMAIN groups } =
                   Range(params.cluster) \cap ListedClusterNames
            /\ Len(groups) = Cardinality(Range(params.cluster) \cap ListedClusterNames)

Flags == {"changed", "failed", "skipped", "unreachable"}

FlagsSet(o) == { f \in Flags : o[f] }

\* C33: a run of the module that has not ended has not called the exit
\* primitive and has a step to take; one that has ended has called it; once it
\* is called the outcome is never replaced within the run; and the outcome of
\* every exit has at most one of changed, failed, skipped and unreachable set.
C33_ExitOnceWithOneFlag ==
    /\ [](ModuleRun => IF pc = "done" THEN outcome.exited
                                       ELSE ~outcome.exited /\ ENABLED Next)
    /\ [](outcome.exited => Cardinality(FlagsSet(outcome)) <= 1)
    /\ [][outcome.exited => (outcome' = outcome \/ (run' = run + 1 /\ ~outcome'.exited))]_vars

C33_Witness ==
    /\ DeletedInCheckMode /\ diff_mode
    /\ outcome.exited /\ outcome.diff # Absent
    /\ FlagsSet(outcome) = {"changed"}

SucceededSubmit ==
    \E i \in DOMAIN requests :
        /\ Submit(requests[i])
        /\ requests[i].result.kind = "resp"
        /\ requests[i].result.success
        /\ requests[i].method = CASE op = "CreateBaselineProfile" -> "POST"
                                   [] op = "ModifyBaselineProfile" -> "PATCH"
                                   [] OTHER -> "DELETE"

\* C34: outside check mode an exit reports changed only after a mutating
\* request of this invocation (the POST of a create, the PATCH of a modify,
\* the DELETE of a delete) reported success, and for a create or a modify only
\* when the last status polled is SUCCESSFUL.
C34_ChangedOnlyIfMutated ==
    (~check_mode /\ outcome.exited /\ outcome.changed) =>
        /\ SucceededSubmit
        /\ op \in {"CreateBaselineProfile", "ModifyBaselineProfile"} =>
              (seen # <<>> /\ LastSeen = "SUCCESSFUL")

C34_Witness ==
    /\ ~check_mode /\ pc = "done" /\ outcome.changed
    /\ op = "ModifyBaselineProfile"
    /\ Len(seen) = 2 /\ seen[1] \notin Terminal /\ LastSeen = "SUCCESSFUL"
    /\ outcome.msg = SUCCESS_MODIFY_MSG

====
